---- MODULE Spec2Model ----
\* Model of backend/src/logger/application_insights_workflow_callbacks.py:
\* the ApplicationInsightsWorkflowCallbacks adapter (logger provisioning with
\* a retry budget, the six workflow hooks) and the module function unwrap_dict.
EXTENDS Integers, Sequences, FiniteSets, TLC

\* ------------------------------------------------------------------ bounds
\* Largest total number of keys (over all nesting levels) of a generated
\* details mapping; a chain {k1: {k2: {k3: leaf}}} has size 3.
MaxSize == 3
\* Largest number of hook calls made on one adapter.
MaxCalls == 2
\* Largest retry budget tried besides the default one.
MaxBudget == 2
\* Largest num_workflow_steps tried.
MaxSteps == 3
\* Largest total number of keys of a details mapping handed to a hook.
MaxDetailSize == 2
\* Largest number of adapters constructed in one process.
MaxAdapters == 2

\* ---------------------------------------------------- program constants
\* def __init_logger(self, connection_string, max_logger_init_retries: int = 10)
DefaultMaxLoggerInitRetries == 10

\* ------------------------------------------------------- python values
\* A Python value: None, a str, an int (s holds its decimal text), an
\* exception (s holds its message) or a dict (items: its entries in insertion
\* order, keys distinct).
PyNone == [isdict |-> FALSE, t |-> "none", s |-> "", items |-> <<>>]
PyStr(x) == [isdict |-> FALSE, t |-> "str", s |-> x, items |-> <<>>]
PyInt(x) == [isdict |-> FALSE, t |-> "int", s |-> x, items |-> <<>>]
PyExc(x) == [isdict |-> FALSE, t |-> "exc", s |-> x, items |-> <<>>]
PyDict(its) == [isdict |-> TRUE, t |-> "dict", s |-> "", items |-> its]

\* str(v) for the values passed as cause: str(None) = "None",
\* str(Exception(m)) = m, str of a str is itself, str of an int its text.
str(v) == PyStr(IF v.t = "none" THEN "None" ELSE v.s)

\* isinstance(v, dict)
isinstance_dict(v) == v.isdict

\* The keys of a dict's entries, and lookup.
KeySet(its) == {its[i].k : i \in 1..Len(its)}
Get(its, key) == its[CHOOSE i \in 1..Len(its) : its[i].k = key].v

\* d[key] = val on a dict: an existing key keeps its position and takes the
\* new value, a new key is appended.
SetItem(its, key, val) ==
    IF key \in KeySet(its)
    THEN [i \in 1..Len(its) |->
            IF its[i].k = key THEN [k |-> key, v |-> val] ELSE its[i]]
    ELSE Append(its, [k |-> key, v |-> val])

\* dict(pairs): the pairs inserted in order, a later pair overriding an
\* earlier one with the same key.
RECURSIVE dict(_)
dict(pairs) ==
    IF pairs = <<>> THEN <<>>
    ELSE LET last == pairs[Len(pairs)]
         IN  SetItem(dict(SubSeq(pairs, 1, Len(pairs) - 1)), last.k, last.v)

\* {**a, **b}
Spread(a, b) == dict(a \o b)

\* ---------------------------------------------------------- unwrap_dict
\* The body of the for loop of unwrap_dict over the entries `its`: the list
\* `items` it builds.
unwrap_new_key_NoPrefix(parent_key, sep, k) == k
unwrap_new_key(parent_key, sep, k) ==
    IF parent_key # "" THEN parent_key \o sep \o k ELSE k

RECURSIVE unwrap_dict(_, _, _)
RECURSIVE unwrap_items(_, _, _)
unwrap_items(its, parent_key, sep) ==
    IF its = <<>> THEN <<>>
    ELSE LET e == Head(its)
             new_key == unwrap_new_key(parent_key, sep, e.k)
             here == IF isinstance_dict(e.v)
                     THEN unwrap_dict(e.v.items, new_key, sep)
                     ELSE <<[k |-> new_key, v |-> e.v]>>
         IN  here \o unwrap_items(Tail(its), parent_key, sep)

unwrap_dict(input_dict, parent_key, sep) ==
    dict(unwrap_items(input_dict, parent_key, sep))

\* ------------------------------------------------------------- inputs
\* The dicts over keys K and leaf values L, by their total number of keys
\* over all nesting levels: DictTable(K, L, <<{<<>>}>>, 1, n)[i + 1] holds
\* those of size i, for i in 0..n. A dict of size i is one of size i - 1 - m
\* with one more entry, whose value is a leaf or the empty dict (m = 0) or a
\* dict of size m.
Extended(K, smaller, values) ==
    { Append(t[1], [k |-> t[2], v |-> t[3]]) :
        t \in {u \in smaller \X K \X values : u[2] \notin KeySet(u[1])} }

RECURSIVE DictsOfSize(_, _, _, _, _)
DictsOfSize(K, L, table, i, m) ==
    IF m = i THEN {}
    ELSE Extended(K, table[i - m],
                  IF m = 0 THEN L \cup {PyDict(<<>>)}
                  ELSE {PyDict(d) : d \in table[m + 1]})
            \cup DictsOfSize(K, L, table, i, m + 1)

RECURSIVE DictTable(_, _, _, _, _)
DictTable(K, L, table, i, n) ==
    IF i > n THEN table
    ELSE DictTable(K, L, Append(table, DictsOfSize(K, L, table, i, 0)), i + 1, n)

RECURSIVE UnionOf(_)
UnionOf(sets) == IF sets = <<>> THEN {} ELSE Head(sets) \cup UnionOf(Tail(sets))

Dicts(K, L, n) == UnionOf(DictTable(K, L, << {<<>>} >>, 1, n))

\* Keys and leaves of the mappings handed to unwrap_dict.
Keys == {"", "a", "b", "a_b"}
Leaves == {PyInt("1"), PyStr("x")}
UnwrapInputs == {PyDict(d) : d \in Dicts(Keys, Leaves, MaxSize)}

\* Keys and leaves of the details handed to the hooks when their formatting
\* is examined.
DetailKeys == {"", "a", "cause", "stack"}
DetailLeaves == {PyInt("1")}
DetailInputs ==
    {PyNone, PyStr("oops")}
        \cup {PyDict(d) : d \in Dicts(DetailKeys, DetailLeaves, MaxDetailSize)}

\* The details handed to the hooks in call sequences: absent, a non-mapping
\* value, the empty mapping and a nested mapping.
CallDetails ==
    {PyNone, PyStr("oops"), PyDict(<<>>),
     PyDict(<<[k |-> "a", v |-> PyDict(<<[k |-> "b", v |-> PyInt("1")]>>)]>>)}

Messages == {"boom", "Index: myindex -- boom"}
Causes == {PyNone, PyExc("E1")}
Stacks == {PyNone, PyStr("trace")}
WorkflowNames == {"A", "B"}
MeasureValues == {"0.5"}
IndexNames == {"", "myindex"}
StepCounts == 0..MaxSteps
PropertyBags ==
    {<<>>,
     <<[k |-> "env", v |-> PyStr("prod")]>>,
     <<[k |-> "cause", v |-> PyStr("bag")],
       [k |-> "cause_stack", v |-> PyStr("bag")],
       [k |-> "workflow_name", v |-> PyStr("bag")]>>}

\* The digests time.time() can hash to, and the logger names built from them.
Digests == {"h1", "h2", "h3"}
ClassName == "ApplicationInsightsWorkflowCallbacks"
LoggerName(h) == ClassName \o "-" \o h
LoggerNames == {LoggerName(h) : h \in Digests}
LoggerNameArgs == {"mylogger"}
Budgets == (0..MaxBudget) \cup {DefaultMaxLoggerInitRetries}

\* -------------------------------------------------------------- state
VARIABLES
    registry,                  \* logging.Logger.manager.loggerDict: the names registered
    adapters,                  \* constructions started in this process
    pc,                        \* "idle", "init_logger" (in the while loop), "ready", "raised"
    max_retry,                 \* __init_logger's local max_retry
    budget,                    \* __init_logger's argument max_logger_init_retries
    has_logger,                \* hasattr(self, "_logger")
    logger_name,               \* self._logger_name
    n_attempts,                \* candidate names generated by this construction
    n_collisions,              \* of which were found in the registry
    n_pipelines,               \* LoggerProvider + BatchLogRecordProcessor + LoggingHandler sets created by it
    registry_before,           \* the registry as the construction found it
    properties,                \* self._properties
    workflow_name,             \* self._workflow_name
    index_name,                \* self._index_name
    num_workflow_steps,        \* self._num_workflow_steps
    processed_workflow_steps,  \* self._processed_workflow_steps
    calls,                     \* hook calls made on the adapter
    n_starts,                  \* of which were on_workflow_start
    n_emitted,                 \* records the logger has been handed
    last_record,               \* the last of them
    last_call,                 \* the last hook call: its arguments and how it ended
    input,                     \* the arguments drawn for the formatting runs
    unwrap_out                 \* what unwrap_dict returned for them

provisioning == <<registry, adapters, pc, max_retry, budget, has_logger, logger_name,
                  n_attempts, n_collisions, n_pipelines, registry_before>>
config == <<properties, index_name, num_workflow_steps>>
progress == <<workflow_name, processed_workflow_steps, n_starts>>
sink == <<n_emitted, last_record>>
drawn == <<input, unwrap_out>>
vars == <<provisioning, config, progress, sink, calls, last_call, drawn>>

NoRecord == [level |-> "", msg |-> "", exc_info |-> FALSE, extra |-> <<>>]
NoCall == [hook |-> "", text |-> "", cause |-> PyNone, stack |-> PyNone,
           details |-> PyNone, raised |-> ""]
NoInput == [message |-> "", cause |-> PyNone, stack |-> PyNone, details |-> PyNone]
NotCalled == [called |-> FALSE, result |-> <<>>]

\* ------------------------------------------------------- construction
\* __init__ up to its call of __init_logger: the fields are set, the
\* _logger attribute is only annotated, so hasattr(self, "_logger") is false.
Construct(name, idx, steps, props, retries) ==
    /\ pc \in {"idle", "ready", "raised"}
    /\ adapters < MaxAdapters
    /\ adapters' = adapters + 1
    /\ logger_name' = name
    /\ properties' = props
    /\ workflow_name' = "N/A"
    /\ index_name' = idx
    /\ num_workflow_steps' = steps
    /\ processed_workflow_steps' = <<>>
    /\ has_logger' = FALSE
    /\ budget' = retries
    /\ max_retry' = retries
    /\ pc' = "init_logger"
    /\ n_attempts' = 0
    /\ n_collisions' = 0
    /\ n_pipelines' = 0
    /\ registry_before' = registry
    /\ calls' = 0
    /\ n_starts' = 0
    /\ last_call' = NoCall
    /\ UNCHANGED <<registry, sink, drawn>>

\* if self._logger_name not in logging.Logger.manager.loggerDict
NameIsFree_Always(name, reg) == TRUE
NameIsFree(name, reg) == name \notin reg

\* if max_retry == 0
Exhausted_OneEarly(n) == n <= 1
Exhausted(n) == n = 0

\* One pass of the while loop with max_retry not yet 0: a candidate name is
\* generated; if it is free the pipeline and the logger are created (which
\* registers the name) and the loop ends, since hasattr(self, "_logger")
\* now holds; in both cases max_retry is decremented.
InitLoggerAttempt(h) ==
    /\ pc = "init_logger"
    /\ ~has_logger
    /\ ~Exhausted(max_retry)
    /\ logger_name' = LoggerName(h)
    /\ n_attempts' = n_attempts + 1
    /\ IF NameIsFree(LoggerName(h), registry)
       THEN /\ n_pipelines' = n_pipelines + 1
            /\ registry' = registry \cup {LoggerName(h)}
            /\ has_logger' = TRUE
            /\ pc' = "ready"
            /\ UNCHANGED n_collisions
       ELSE /\ n_collisions' = n_collisions + 1
            /\ UNCHANGED <<n_pipelines, registry, has_logger, pc>>
    /\ max_retry' = max_retry - 1
    /\ UNCHANGED <<adapters, budget, registry_before, config, progress, sink,
                   calls, last_call, drawn>>

\* raise Exception("Failed to create logger. Could not disambiguate logger name.")
InitLoggerRaise ==
    /\ pc = "init_logger"
    /\ ~has_logger
    /\ Exhausted(max_retry)
    /\ pc' = "raised"
    /\ UNCHANGED <<registry, adapters, max_retry, budget, has_logger, logger_name,
                   n_attempts, n_collisions, n_pipelines, registry_before,
                   config, progress, sink, calls, last_call, drawn>>

\* ------------------------------------------------------------- hooks
\* _format_details
_format_details_BagWins(props, details) ==
    IF ~isinstance_dict(details) \/ details = PyNone
    THEN <<>>
    ELSE <<[k |-> "custom_dimensions",
            v |-> PyDict(Spread(unwrap_dict(details.items, "", "_"), props))]>>
_format_details(props, details) ==
    IF ~isinstance_dict(details) \/ details = PyNone
    THEN <<>>
    ELSE <<[k |-> "custom_dimensions",
            v |-> PyDict(Spread(props, unwrap_dict(details.items, "", "_")))]>>

\* message = f"Index: {self._index_name} -- " if self._index_name else ""
IndexPrefix_Always(idx) == "Index: " \o idx \o " -- "
IndexPrefix(idx) == IF idx # "" THEN "Index: " \o idx \o " -- " ELSE ""

\* f" ({len(self._processed_workflow_steps)}/{self._num_workflow_steps})"
\* if self._num_workflow_steps else ""
WorkflowProgress_ZeroBased(steps, n) ==
    IF n # 0 THEN " (" \o ToString(Len(steps) - 1) \o "/" \o ToString(n) \o ")" ELSE ""
WorkflowProgress(steps, n) ==
    IF n # 0 THEN " (" \o ToString(Len(steps)) \o "/" \o ToString(n) \o ")" ELSE ""

\* f"Workflow{workflow_progress}: {name} started." / "... complete."
WorkflowMessage(idx, steps, n, name, what) ==
    IndexPrefix(idx) \o "Workflow" \o WorkflowProgress(steps, n) \o ": " \o name \o what

\* details = {"workflow_name": name}; if self._index_name: details["index_name"] = ...
WorkflowDetails(name, idx) ==
    LET d == <<[k |-> "workflow_name", v |-> PyStr(name)]>>
    IN  PyDict(IF idx # "" THEN SetItem(d, "index_name", PyStr(idx)) ELSE d)

\* details = {} if details is None else details
\* details = {"cause": str(cause), "stack": stack, **details}
ErrorDetails_RawCause(cause, stack, details) ==
    PyDict(Spread(<<[k |-> "cause", v |-> cause], [k |-> "stack", v |-> stack]>>,
                  (IF details = PyNone THEN PyDict(<<>>) ELSE details).items))
ErrorDetails(cause, stack, details) ==
    PyDict(Spread(<<[k |-> "cause", v |-> str(cause)], [k |-> "stack", v |-> stack]>>,
                  (IF details = PyNone THEN PyDict(<<>>) ELSE details).items))

\* {**details} raises TypeError unless details is a mapping.
SpreadRaises(details) == details # PyNone /\ ~isinstance_dict(details)

\* self._logger.<level>(message, ..., extra=...): the logger's level is DEBUG
\* and its one handler is the LoggingHandler, so every record is handed on.
Emit(level, message, exc_info, extra) ==
    /\ n_emitted' = n_emitted + 1
    /\ last_record' = [level |-> level, msg |-> message, exc_info |-> exc_info,
                       extra |-> extra]

Called(hook, text, cause, stack, details, raised) ==
    /\ calls' = calls + 1
    /\ last_call' = [hook |-> hook, text |-> text, cause |-> cause, stack |-> stack,
                     details |-> details, raised |-> raised]

CanCall == pc = "ready" /\ calls < MaxCalls

\* self._processed_workflow_steps.append(name)
AppendStep_Replace(steps, name) == <<name>>
AppendStep(steps, name) == Append(steps, name)

on_workflow_start(name) ==
    /\ CanCall
    /\ workflow_name' = name
    /\ processed_workflow_steps' = AppendStep(processed_workflow_steps, name)
    /\ n_starts' = n_starts + 1
    /\ Emit("INFO",
            WorkflowMessage(index_name, processed_workflow_steps', num_workflow_steps,
                            name, " started."),
            FALSE,
            _format_details(properties, WorkflowDetails(name, index_name)))
    /\ Called("on_workflow_start", name, PyNone, PyNone, PyNone, "")
    /\ UNCHANGED <<provisioning, config, drawn>>

on_workflow_end(name) ==
    /\ CanCall
    /\ Emit("INFO",
            WorkflowMessage(index_name, processed_workflow_steps, num_workflow_steps,
                            name, " complete."),
            FALSE,
            _format_details(properties, WorkflowDetails(name, index_name)))
    /\ Called("on_workflow_end", name, PyNone, PyNone, PyNone, "")
    /\ UNCHANGED <<provisioning, config, progress, drawn>>

on_error(message, cause, stack, details) ==
    /\ CanCall
    /\ IF SpreadRaises(details)
       THEN /\ Called("on_error", message, cause, stack, details, "TypeError")
            /\ UNCHANGED sink
       ELSE /\ Emit("ERROR", message, TRUE,
                    _format_details(properties, ErrorDetails(cause, stack, details)))
            /\ Called("on_error", message, cause, stack, details, "")
    /\ UNCHANGED <<provisioning, config, progress, drawn>>

on_warning(message, details) ==
    /\ CanCall
    /\ Emit("WARNING", message, FALSE, _format_details(properties, details))
    /\ Called("on_warning", message, PyNone, PyNone, details, "")
    /\ UNCHANGED <<provisioning, config, progress, drawn>>

on_log(message, details) ==
    /\ CanCall
    /\ Emit("INFO", message, FALSE, _format_details(properties, details))
    /\ Called("on_log", message, PyNone, PyNone, details, "")
    /\ UNCHANGED <<provisioning, config, progress, drawn>>

\* raise NotImplementedError("on_measure() not supported by this logger.")
on_measure_Logs(name, value, details) ==
    /\ CanCall
    /\ Emit("INFO", name, FALSE, _format_details(properties, details))
    /\ Called("on_measure", name, PyNone, PyNone, details, "")
    /\ UNCHANGED <<provisioning, config, progress, drawn>>
on_measure(name, value, details) ==
    /\ CanCall
    /\ Called("on_measure", name, PyNone, PyNone, details, "NotImplementedError")
    /\ UNCHANGED <<provisioning, config, progress, sink, drawn>>

\* unwrap_dict(input_dict) called with its default parent_key and sep.
CallUnwrapDict ==
    /\ ~unwrap_out.called
    /\ unwrap_out' = [called |-> TRUE, result |-> unwrap_dict(input.details.items, "", "_")]
    /\ UNCHANGED <<provisioning, config, progress, sink, calls, last_call, input>>

\* ----------------------------------------------------- specifications
\* No adapter yet; some logger names may already be registered.
NoAdapter ==
    /\ adapters = 0
    /\ pc = "idle"
    /\ max_retry = 0
    /\ budget = 0
    /\ has_logger = FALSE
    /\ logger_name = ""
    /\ n_attempts = 0
    /\ n_collisions = 0
    /\ n_pipelines = 0
    /\ registry_before = {}
    /\ properties = <<>>
    /\ workflow_name = ""
    /\ index_name = ""
    /\ num_workflow_steps = 0
    /\ processed_workflow_steps = <<>>
    /\ calls = 0
    /\ n_starts = 0
    /\ n_emitted = 0
    /\ last_record = NoRecord
    /\ last_call = NoCall

\* An adapter as a first, collision-free construction with the default
\* retry budget leaves it.
Constructed(idx, steps, props) ==
    /\ registry = {LoggerName("h1")}
    /\ adapters = 1
    /\ pc = "ready"
    /\ max_retry = DefaultMaxLoggerInitRetries - 1
    /\ budget = DefaultMaxLoggerInitRetries
    /\ has_logger = TRUE
    /\ logger_name = LoggerName("h1")
    /\ n_attempts = 1
    /\ n_collisions = 0
    /\ n_pipelines = 1
    /\ registry_before = {}
    /\ properties = props
    /\ workflow_name = "N/A"
    /\ index_name = idx
    /\ num_workflow_steps = steps
    /\ processed_workflow_steps = <<>>
    /\ calls = 0
    /\ n_starts = 0
    /\ n_emitted = 0
    /\ last_record = NoRecord
    /\ last_call = NoCall

\* The hooks, called in any order on a constructed adapter.
Init ==
    /\ \E idx \in IndexNames, steps \in StepCounts, props \in PropertyBags :
          Constructed(idx, steps, props)
    /\ input = NoInput
    /\ unwrap_out = NotCalled

Next ==
    \/ \E name \in WorkflowNames : on_workflow_start(name)
    \/ \E name \in WorkflowNames : on_workflow_end(name)
    \/ \E message \in Messages, cause \in Causes, stack \in Stacks, details \in CallDetails :
          on_error(message, cause, stack, details)
    \/ \E message \in Messages, details \in CallDetails : on_warning(message, details)
    \/ \E message \in Messages, details \in CallDetails : on_log(message, details)
    \/ \E name \in WorkflowNames, value \in MeasureValues, details \in CallDetails :
          on_measure(name, value, details)

Spec == Init /\ [][Next]_vars

\* Construction: __init__ and the retry loop of __init_logger.
InitProvision ==
    /\ registry \in SUBSET LoggerNames
    /\ NoAdapter
    /\ input = NoInput
    /\ unwrap_out = NotCalled

NextProvision ==
    \/ \E name \in LoggerNameArgs, idx \in IndexNames, steps \in StepCounts,
          props \in PropertyBags, retries \in Budgets :
          Construct(name, idx, steps, props, retries)
    \/ \E h \in Digests : InitLoggerAttempt(h)
    \/ InitLoggerRaise

SpecProvision == InitProvision /\ [][NextProvision]_vars

\* The loop is straight-line code: once entered it keeps running.
LiveProvision ==
    /\ SpecProvision
    /\ WF_vars(\E h \in Digests : InitLoggerAttempt(h))
    /\ WF_vars(InitLoggerRaise)

\* The formatting of one drawn set of arguments by on_error, on_warning and
\* on_log, under each property bag.
InitFormat ==
    /\ \E props \in PropertyBags : Constructed("", 0, props)
    /\ input \in [message : {"boom"}, cause : Causes, stack : Stacks,
                  details : DetailInputs]
    /\ unwrap_out = NotCalled

NextFormat ==
    \/ on_error(input.message, input.cause, input.stack, input.details)
    \/ on_warning(input.message, input.details)
    \/ on_log(input.message, input.details)

SpecFormat == InitFormat /\ [][NextFormat]_vars

\* unwrap_dict applied to one drawn mapping.
InitUnwrap ==
    /\ Constructed("", 0, <<>>)
    /\ input \in [message : {""}, cause : {PyNone}, stack : {PyNone},
                  details : UnwrapInputs]
    /\ unwrap_out = NotCalled

NextUnwrap == CallUnwrapDict

SpecUnwrap == InitUnwrap /\ [][NextUnwrap]_vars

\* ------------------------------------------------------------- claims
StartsWith(text, prefix) ==
    Len(text) >= Len(prefix) /\ SubSeq(text, 1, Len(prefix)) = prefix

HasWrapper(extra) == "custom_dimensions" \in KeySet(extra)
CustomDimensions(extra) == Get(extra, "custom_dimensions").items

Terminated == pc \in {"ready", "raised"}

\* C1: a construction that meets N colliding candidates with N below its
\* retry budget ends with a logger whose name was not registered before; one
\* that meets as many collisions as its budget ends by raising after exactly
\* that many attempts; and every construction ends one of the two ways.
C1_ProvisioningTerminates ==
    /\ [](pc = "ready" =>
            /\ n_collisions < budget
            /\ n_attempts = n_collisions + 1
            /\ has_logger
            /\ logger_name \notin registry_before
            /\ logger_name \in registry)
    /\ [](pc = "raised" =>
            /\ n_collisions = budget
            /\ n_attempts = budget)
    /\ (pc = "init_logger" ~> Terminated)

C1_Witness ==
    /\ pc = "ready"
    /\ budget = DefaultMaxLoggerInitRetries
    /\ n_collisions = 2

\* C2: a construction creates the logger and its export pipeline at most
\* once: on the attempt whose candidate name is free, never on a colliding
\* one; when it raises, no logger is set and no pipeline was created.
C2_PipelineAtMostOnce ==
    /\ [](/\ n_pipelines <= 1
          /\ has_logger <=> n_pipelines = 1
          /\ pc = "ready" <=> has_logger
          /\ pc = "raised" => ~has_logger /\ n_pipelines = 0)
    /\ [][n_attempts' = n_attempts + 1 =>
            IF logger_name' \in registry
            THEN n_pipelines' = n_pipelines /\ has_logger' = has_logger
            ELSE n_pipelines' = n_pipelines + 1 /\ has_logger']_vars

C2_Witness ==
    /\ pc = "raised"
    /\ budget = DefaultMaxLoggerInitRetries
    /\ n_attempts = DefaultMaxLoggerInitRetries

\* C3: no hook other than on_measure raises, whatever its details are
\* (a mapping, absent, or a non-mapping value), and each emits its record;
\* details handed on as they came (on_warning, on_log) that are absent or not
\* a mapping give empty properties, without the custom_dimensions key.
C3_HooksNeverRaise ==
    last_call.hook \in {"on_workflow_start", "on_workflow_end", "on_error",
                        "on_warning", "on_log"} =>
        /\ last_call.raised = ""
        /\ n_emitted >= 1
        /\ (last_call.hook \in {"on_warning", "on_log"} /\ ~last_call.details.isdict) =>
              last_record.extra = <<>>

\* C4 as stated: with an index label every emitted message begins with
\* "Index: {index} -- ", and without one no emitted message begins that way.
C4_EveryMessagePrefixed ==
    n_emitted > 0 =>
        IF index_name # ""
        THEN StartsWith(last_record.msg, "Index: " \o index_name \o " -- ")
        ELSE ~StartsWith(last_record.msg, "Index: ")

\* C4, amended: the messages of on_workflow_start and on_workflow_end begin
\* with "Index: {index} -- " when the index label is not empty and with
\* "Workflow" when it is; on_error, on_warning and on_log emit the caller's
\* message unchanged, whatever the index label.
C4_WorkflowMessagesPrefixed ==
    /\ last_call.hook \in {"on_workflow_start", "on_workflow_end"} =>
          IF index_name # ""
          THEN StartsWith(last_record.msg, "Index: " \o index_name \o " -- Workflow")
          ELSE StartsWith(last_record.msg, "Workflow")
    /\ (last_call.hook \in {"on_error", "on_warning", "on_log"} /\ last_call.raised = "") =>
          last_record.msg = last_call.text

C4_Witness ==
    /\ index_name = "myindex"
    /\ last_call.hook = "on_workflow_end"
    /\ StartsWith(last_record.msg, "Index: myindex -- ")

\* The cause and stack entries on_error itself puts in the properties.
ErrorArgument(key) == IF key = "cause" THEN str(last_call.cause) ELSE last_call.stack

EmittedError == last_call.hook = "on_error" /\ last_call.raised = ""

\* C5 as stated: the properties of every on_error record hold the
\* stringified cause under "cause" and the stack under "stack", whatever the
\* cause, the stack and the details are.
C5_CauseAndStackAlways ==
    EmittedError =>
        /\ HasWrapper(last_record.extra)
        /\ \A key \in {"cause", "stack"} :
              /\ key \in KeySet(CustomDimensions(last_record.extra))
              /\ Get(CustomDimensions(last_record.extra), key) = ErrorArgument(key)

\* The details leave the entry on_error makes under `key` alone: they have
\* no entry of their own under it, and none of their leaves flattens to it.
LeavesAlone(details, key) ==
    \/ details = PyNone
    \/ /\ key \notin KeySet(details.items)
       /\ key \notin KeySet(unwrap_dict(details.items, "", "_"))

\* C5, amended: the properties of an on_error record hold the stringified
\* cause under "cause" (the stack under "stack") whenever the details have
\* no entry under that key and no leaf that flattens to it; an entry of the
\* details under the key replaces the argument.
C5_CauseAndStackUnlessOverridden ==
    EmittedError =>
        /\ HasWrapper(last_record.extra)
        /\ \A key \in {"cause", "stack"} :
              LET dims == CustomDimensions(last_record.extra)
                  own == last_call.details.items
              IN  /\ LeavesAlone(last_call.details, key) =>
                        key \in KeySet(dims) /\ Get(dims, key) = ErrorArgument(key)
                  /\ (/\ last_call.details.isdict
                      /\ key \in KeySet(own)
                      /\ ~Get(own, key).isdict
                      /\ LeavesAlone(PyDict(SelectSeq(own, LAMBDA e : e.k # key)), key)) =>
                        key \in KeySet(dims) /\ Get(dims, key) = Get(own, key)

C5_Witness ==
    /\ EmittedError
    /\ last_call.cause = PyNone
    /\ last_call.stack = PyNone
    /\ last_call.details = PyDict(<<[k |-> "a", v |-> PyDict(<<[k |-> "a", v |-> PyInt("1")]>>)]>>)
    /\ \A key \in {"cause", "stack"} : LeavesAlone(last_call.details, key)
    /\ KeySet(CustomDimensions(last_record.extra)) \ KeySet(properties)
          = {"cause", "stack", "a_a"}

IsPrefix(a, b) == Len(a) <= Len(b) /\ SubSeq(b, 1, Len(a)) = a

HookCalled == calls' = calls + 1

\* C6: the step history only grows at its end: on_workflow_start appends
\* its name argument, every other hook leaves the list as it was.
C6_StepHistoryAppendOnly ==
    [][/\ IsPrefix(processed_workflow_steps, processed_workflow_steps')
       /\ HookCalled =>
            IF last_call'.hook = "on_workflow_start"
            THEN processed_workflow_steps'
                    = processed_workflow_steps \o <<last_call'.text>>
            ELSE processed_workflow_steps' = processed_workflow_steps]_vars

C6_Witness ==
    /\ processed_workflow_steps = <<"A">>
    /\ calls = 2
    /\ last_call.hook = "on_workflow_end"

\* C7: a workflow record shows " (i/N)", i being the number of
\* on_workflow_start calls made so far (the current one included) and N
\* num_workflow_steps; on_workflow_end shows the count of the last start;
\* with N = 0 there is no such suffix.
C7_ProgressSuffix ==
    last_call.hook \in {"on_workflow_start", "on_workflow_end"} =>
        LET shown == IF num_workflow_steps = 0 THEN ""
                     ELSE " (" \o ToString(n_starts) \o "/"
                               \o ToString(num_workflow_steps) \o ")"
            prefix == IF index_name = "" THEN "" ELSE "Index: " \o index_name \o " -- "
            ending == IF last_call.hook = "on_workflow_start"
                      THEN " started." ELSE " complete."
        IN  last_record.msg
                = prefix \o "Workflow" \o shown \o ": " \o last_call.text \o ending

C7_Witness ==
    /\ num_workflow_steps = 3
    /\ n_starts = 2
    /\ last_call.hook = "on_workflow_start"
    /\ last_record.msg = "Workflow (2/3): B started."

\* C8: on_measure raises NotImplementedError whatever its arguments and the
\* adapter's state; it emits no record and leaves the workflow name and the
\* step history as they were.
C8_MeasureUnsupported ==
    [][(HookCalled /\ last_call'.hook = "on_measure") =>
            /\ last_call'.raised = "NotImplementedError"
            /\ n_emitted' = n_emitted
            /\ last_record' = last_record
            /\ workflow_name' = workflow_name
            /\ processed_workflow_steps' = processed_workflow_steps]_vars

C8_Witness ==
    /\ last_call.hook = "on_measure"
    /\ last_call.raised = "NotImplementedError"
    /\ last_call.details.isdict
    /\ workflow_name = "A"
    /\ n_emitted = 1

\* C9: for a mapping details, custom_dimensions holds every key of the
\* fixed property bag and every key of the flattened details; a key of both
\* holds the value of the flattened details; the bag is left as it was.
C9_DetailsOverrideBag ==
    [][(/\ HookCalled
        /\ last_call'.hook \in {"on_warning", "on_log"}
        /\ last_call'.details.isdict) =>
            /\ properties' = properties
            /\ HasWrapper(last_record'.extra)
            /\ LET dims == CustomDimensions(last_record'.extra)
                   flat == unwrap_dict(last_call'.details.items, "", "_")
               IN  /\ KeySet(properties) \cup KeySet(flat) \subseteq KeySet(dims)
                   /\ \A key \in KeySet(properties) \cap KeySet(flat) :
                         Get(dims, key) = Get(flat, key)]_vars

C9_Witness ==
    /\ last_call.hook = "on_log"
    /\ last_call.details.isdict
    /\ "cause" \in KeySet(properties)
    /\ "cause" \in KeySet(unwrap_dict(last_call.details.items, "", "_"))
    /\ Get(CustomDimensions(last_record.extra), "cause") = PyInt("1")

\* The non-mapping leaves of a mapping in iteration order, each with the
\* path of keys that leads to it.
RECURSIVE LeafSeq(_, _)
LeafSeq(its, path) ==
    IF its = <<>> THEN <<>>
    ELSE LET e == Head(its)
             here == IF e.v.isdict
                     THEN LeafSeq(e.v.items, Append(path, e.k))
                     ELSE <<[path |-> Append(path, e.k), v |-> e.v]>>
         IN  here \o LeafSeq(Tail(its), path)

\* "k1_k2_..._kn"
RECURSIVE Joined(_)
Joined(path) ==
    IF Len(path) = 1 THEN path[1]
    ELSE Joined(SubSeq(path, 1, Len(path) - 1)) \o "_" \o path[Len(path)]

\* The same, a prefix that is empty so far being dropped with its separator.
RECURSIVE JoinedNonEmpty(_)
JoinedNonEmpty(path) ==
    IF Len(path) = 1 THEN path[1]
    ELSE LET front == JoinedNonEmpty(SubSeq(path, 1, Len(path) - 1))
         IN  IF front = "" THEN path[Len(path)] ELSE front \o "_" \o path[Len(path)]

AllPaths(leaves) == UNION {{leaves[i].path[j] : j \in 1..Len(leaves[i].path)} : i \in 1..Len(leaves)}

\* C10 as stated, for mappings none of whose leaves lies under an empty key:
\* every leaf of the mapping appears in the result under its joined key path
\* with its value, and no value of the result is a mapping.
C10_EveryLeafUnderItsPath ==
    (unwrap_out.called /\ "" \notin AllPaths(LeafSeq(input.details.items, <<>>))) =>
        LET leaves == LeafSeq(input.details.items, <<>>)
            flat == unwrap_out.result
        IN  /\ \A i \in 1..Len(leaves) :
                  /\ Joined(leaves[i].path) \in KeySet(flat)
                  /\ Get(flat, Joined(leaves[i].path)) = leaves[i].v
            /\ \A i \in 1..Len(flat) : ~flat[i].v.isdict

\* C10, amended: the result is flat, its keys are exactly the joined key
\* paths of the leaves (an empty prefix is dropped, so a leading "" key adds
\* nothing), and each key holds the value of the last leaf, in iteration
\* order, whose path joins to it: a leaf appears with its value unchanged
\* unless a later leaf joins to the same key.
C10_LastLeafUnderItsPath ==
    unwrap_out.called =>
        LET leaves == LeafSeq(input.details.items, <<>>)
            flat == unwrap_out.result
            at(key) == {i \in 1..Len(leaves) : JoinedNonEmpty(leaves[i].path) = key}
        IN  /\ KeySet(flat) = {JoinedNonEmpty(leaves[i].path) : i \in 1..Len(leaves)}
            /\ \A i \in 1..Len(flat) :
                  /\ ~flat[i].v.isdict
                  /\ \A j \in 1..Len(flat) : flat[i].k = flat[j].k => i = j
                  /\ flat[i].v = leaves[CHOOSE n \in at(flat[i].k) :
                                          \A m \in at(flat[i].k) : m <= n].v

C10_Witness ==
    /\ unwrap_out.called
    /\ input.details =
          PyDict(<<[k |-> "a", v |->
                     PyDict(<<[k |-> "b", v |->
                                PyDict(<<[k |-> "a", v |-> PyInt("1")]>>)]>>)]>>)
    /\ unwrap_out.result = <<[k |-> "a_b_a", v |-> PyInt("1")]>>
====
